---------------------------- MODULE Spec2Model ----------------------------
(***************************************************************************)
(* Model of the realistic-task-timer application:                          *)
(*   - calculateRealTime (utils/openai): one request to the completion     *)
(*     API, JSON decoding of the answer, and the two fallbacks;            *)
(*   - TaskInputScreen: the task list, the add/edit flow, the persistence  *)
(*     slot and the start / pause / reset countdown with its setInterval   *)
(*     callbacks.                                                          *)
(*                                                                         *)
(* JavaScript values are records [t, n, s].  A number x is held as the     *)
(* integer n = x * SecondsPerMinute, so that minutes with a fractional     *)
(* part (0.05, 1.5) and the seconds derived from them are exact integers.  *)
(***************************************************************************)
EXTENDS Integers, Sequences, FiniteSets, TLC

\* task.realTime * 60 (TaskInputScreen.tsx:144)
SecondsPerMinute == 60

\* ------------------------------------------------------------------------
\* Bounds of the model
\* ------------------------------------------------------------------------
\* largest estimated time (minutes) handed to calculateRealTime
MaxEstimate == 3

\* estimates requested by handleAddTask in one session
MaxRequests == 2

\* timers started (setInterval calls) in one session
MaxStarts == 2

\* ------------------------------------------------------------------------
\* JavaScript values
\* ------------------------------------------------------------------------
JV(t, n, s) == [t |-> t, n |-> n, s |-> s]

Undefined == JV("undefined", 0, "")

Null == JV("null", 0, "")

NaN == JV("nan", 0, "")

\* the number n / SecondsPerMinute
Num(n) == JV("number", n, "")

\* the whole number m
Whole(m) == Num(m * SecondsPerMinute)

Str(s) == JV("string", 0, s)

Bool(b) == JV("boolean", IF b THEN 1 ELSE 0, "")

\* an array or a nested object: only its truthiness is read
Obj == JV("object", 0, "")

\* ToBoolean, as applied by || and by if (...)
Truthy(v) ==
    CASE v.t = "undefined" -> FALSE
      [] v.t = "null" -> FALSE
      [] v.t = "nan" -> FALSE
      [] v.t = "number" -> v.n # 0
      [] v.t = "string" -> v.s # ""
      [] v.t = "boolean" -> v.n = 1
      [] OTHER -> TRUE

\* a || b
OrElse(a, b) == IF Truthy(a) THEN a ELSE b

IsPositiveInteger(v) ==
    /\ v.t = "number"
    /\ v.n > 0
    /\ v.n % SecondsPerMinute = 0

\* ceiling of a / b for b > 0
CeilDiv(a, b) == -((-a) \div b)

\* Math.floor in place of Math.ceil
CeilTimes12Floor(estimatedTime) ==
    IF estimatedTime.t = "number"
    THEN Whole((estimatedTime.n * 12) \div (10 * SecondsPerMinute))
    ELSE NaN

\* Math.ceil(estimatedTime * 1.2)
CeilTimes12(estimatedTime) ==
    IF estimatedTime.t = "number"
    THEN Whole(CeilDiv(estimatedTime.n * 12, 10 * SecondsPerMinute))
    ELSE NaN

\* ------------------------------------------------------------------------
\* The completion API's answer and JSON.parse
\* ------------------------------------------------------------------------
\* The answer text is a sequence of tokens: punctuation, a scalar or nested
\* value ("val"), or text that is no JSON at all ("junk").
Tok(k) == [k |-> k, v |-> Undefined]

Val(v) == [k |-> "val", v |-> v]

\* what the inner try block can hand back
Threw == [threw |-> TRUE, v |-> Undefined, realTime |-> Undefined, explanation |-> Undefined]

Parsed(v, realTime, explanation) ==
    [threw |-> FALSE, v |-> v, realTime |-> realTime, explanation |-> explanation]

\* inner tokens of [ ... ]: values separated by commas
ElementsOK(inner) ==
    \/ Len(inner) = 0
    \/ /\ Len(inner) % 2 = 1
       /\ \A i \in 1..Len(inner) :
            IF i % 2 = 1 THEN inner[i].k = "val" ELSE inner[i].k = ","

\* inner tokens of { ... }: "key" : value members separated by commas
MembersOK(inner) ==
    \/ Len(inner) = 0
    \/ /\ Len(inner) % 4 = 3
       /\ \A i \in 1..Len(inner) :
            CASE i % 4 = 1 -> inner[i].k = "val" /\ inner[i].v.t = "string"
              [] i % 4 = 2 -> inner[i].k = ":"
              [] i % 4 = 3 -> inner[i].k = "val"
              [] OTHER -> inner[i].k = ","

\* the value of property key of the object whose members are inner
\* (a repeated key keeps its last value)
Member(inner, key) ==
    LET at == {i \in 1..Len(inner) : i % 4 = 1 /\ inner[i].v = Str(key)}
    IN  IF at = {} THEN Undefined
        ELSE LET last == CHOOSE i \in at : \A j \in at : j <= i
             IN  inner[last + 2].v

\* JSON.parse(content) for documents without nesting written out: a scalar,
\* an array of values, or an object of "key": value members
JSONParse(content) ==
    LET n == Len(content)
        inner == IF n >= 2 THEN SubSeq(content, 2, n - 1) ELSE <<>>
    IN  CASE n = 0 -> Threw
          [] n = 1 ->
               IF content[1].k = "val"
               THEN Parsed(content[1].v, Undefined, Undefined)
               ELSE Threw
          [] content[1].k = "[" /\ content[n].k = "]" ->
               IF ElementsOK(inner) THEN Parsed(Obj, Undefined, Undefined) ELSE Threw
          [] content[1].k = "{" /\ content[n].k = "}" ->
               IF MembersOK(inner)
               THEN Parsed(Obj, Member(inner, "realTime"), Member(inner, "explanation"))
               ELSE Threw
          [] OTHER -> Threw

\* ------------------------------------------------------------------------
\* calculateRealTime
\* ------------------------------------------------------------------------
ExplanationParseFallback == Str("extra time was allotted for unexpected interruptions")

ExplanationApiError == Str("API error: the basic 20% increase was applied")

Result(realTime, explanation) ==
    [status |-> "resolved", realTime |-> realTime, explanation |-> explanation]

Rejected == [status |-> "rejected", realTime |-> Undefined, explanation |-> Undefined]

\* response.choices[0].message.content || "": a TypeError when a link of the
\* chain is undefined, the empty text for null content
ContentOf(outcome) ==
    CASE outcome.kind = "text" -> [threw |-> FALSE, content |-> outcome.content]
      [] outcome.kind = "nullContent" -> [threw |-> FALSE, content |-> <<>>]
      [] OTHER -> [threw |-> TRUE, content |-> <<>>]

\* the inner try block: parse, then read result.realTime and
\* result.explanation (a TypeError on null)
InnerTry(content, estimatedTime) ==
    LET result == JSONParse(content)
    IN  IF result.threw \/ result.v.t \in {"null", "undefined"}
        THEN [threw |-> TRUE, value |-> Rejected]
        ELSE [threw |-> FALSE,
              value |-> Result(OrElse(result.realTime, CeilTimes12(estimatedTime)),
                               OrElse(result.explanation, ExplanationParseFallback))]

\* catch (parseError)
InnerCatch(estimatedTime) ==
    Result(CeilTimes12(estimatedTime), ExplanationParseFallback)

\* an outer catch that rethrows
OuterCatchRethrows(estimatedTime) == Rejected

\* catch (error)
OuterCatch(estimatedTime) ==
    Result(CeilTimes12(estimatedTime), ExplanationApiError)

\* the outer try block: the request, the content, the inner try/catch
OuterTry(estimatedTime, outcome) ==
    IF outcome.kind = "throws" \/ ContentOf(outcome).threw
    THEN [threw |-> TRUE, value |-> Rejected]
    ELSE LET inner == InnerTry(ContentOf(outcome).content, estimatedTime)
         IN  [threw |-> FALSE,
              value |-> IF inner.threw THEN InnerCatch(estimatedTime) ELSE inner.value]

calculateRealTime(taskName, estimatedTime, outcome) ==
    LET outer == OuterTry(estimatedTime, outcome)
    IN  IF outer.threw THEN OuterCatch(estimatedTime) ELSE outer.value

\* ------------------------------------------------------------------------
\* Text of the two input fields: a sequence of characters
\* ------------------------------------------------------------------------
IsSpace(c) == c = " "

RECURSIVE TrimStart(_)
TrimStart(text) ==
    IF Len(text) > 0 /\ IsSpace(Head(text)) THEN TrimStart(Tail(text)) ELSE text

RECURSIVE TrimEnd(_)
TrimEnd(text) ==
    IF Len(text) > 0 /\ IsSpace(text[Len(text)])
    THEN TrimEnd(SubSeq(text, 1, Len(text) - 1))
    ELSE text

\* String.prototype.trim
Trim(text) == TrimEnd(TrimStart(text))

Digits == <<"0", "1", "2", "3", "4", "5", "6", "7", "8", "9">>

IsDigit(c) == \E d \in 1..Len(Digits) : Digits[d] = c

DigitValue(c) == (CHOOSE d \in 1..Len(Digits) : Digits[d] = c) - 1

\* the value of the longest prefix of digits of text, after acc
RECURSIVE DigitsValue(_, _)
DigitsValue(text, acc) ==
    IF Len(text) > 0 /\ IsDigit(Head(text))
    THEN DigitsValue(Tail(text), acc * 10 + DigitValue(Head(text)))
    ELSE acc

\* parseInt(text): leading white space, a sign, then digits; NaN without a digit
ParseInt(text) ==
    LET t == TrimStart(text)
        signed == Len(t) > 0 /\ Head(t) \in {"-", "+"}
        body == IF signed THEN Tail(t) ELSE t
    IN  IF Len(body) = 0 \/ ~IsDigit(Head(body)) THEN NaN
        ELSE IF signed /\ Head(t) = "-"
             THEN Whole(-DigitsValue(body, 0))
             ELSE Whole(DigitsValue(body, 0))

RECURSIVE NatToText(_)
NatToText(m) ==
    IF m < 10 THEN <<Digits[m + 1]>>
    ELSE NatToText(m \div 10) \o <<Digits[(m % 10) + 1]>>

\* Number.prototype.toString of a whole number or NaN
NumberToString(v) ==
    IF v.t = "number"
    THEN IF v.n < 0 THEN <<"-">> \o NatToText((-v.n) \div SecondsPerMinute)
         ELSE NatToText(v.n \div SecondsPerMinute)
    ELSE <<"N", "a", "N">>

\* ------------------------------------------------------------------------
\* Tasks
\* ------------------------------------------------------------------------
\* an optional reference: <<>> for null, <<x>> for x
None == <<>>

Some(x) == <<x>>

\* const newTask: Task = { id, name, estimatedTime, realTime }
NewTask(id, name, estimatedTime, realTime) ==
    [id |-> id, name |-> name, estimatedTime |-> estimatedTime, realTime |-> realTime,
     isRunning |-> Undefined, isPaused |-> Undefined, remainingTime |-> Undefined]

\* x * 60 on the values a task's realTime takes in the model (the strings
\* of the model are no numerals)
Times60(v) ==
    CASE v.t = "number" -> Num(v.n * SecondsPerMinute)
      [] v.t = "boolean" -> Whole(v.n * SecondsPerMinute)
      [] v.t = "null" -> Num(0)
      [] OTHER -> NaN

\* x - 1 on a number
MinusOne(v) == IF v.t = "number" THEN Num(v.n - SecondsPerMinute) ELSE NaN

\* x <= 0 (false for NaN)
AtMostZero(v) == v.t = "number" /\ v.n <= 0

\* tasks.map(t => t.id === id ? updated : t)
ReplaceById(list, id, updated) ==
    [i \in 1..Len(list) |-> IF list[i].id = id THEN updated ELSE list[i]]

\* tasks.filter(task => task.id !== taskId)
RECURSIVE FilterOut(_, _)
FilterOut(list, id) ==
    IF Len(list) = 0 THEN <<>>
    ELSE IF Head(list).id = id THEN FilterOut(Tail(list), id)
         ELSE <<Head(list)>> \o FilterOut(Tail(list), id)

\* JSON.stringify of a value of a task: NaN is written as null
StringifyValue(v) == IF v.t = "nan" THEN Null ELSE v

\* JSON.stringify(updatedTasks): properties holding undefined are left out
\* (read back as undefined), NaN becomes null
Stringify(list) ==
    [i \in 1..Len(list) |->
        [id |-> list[i].id, name |-> list[i].name,
         estimatedTime |-> StringifyValue(list[i].estimatedTime),
         realTime |-> StringifyValue(list[i].realTime),
         isRunning |-> list[i].isRunning, isPaused |-> list[i].isPaused,
         remainingTime |-> StringifyValue(list[i].remainingTime)]]

\* ------------------------------------------------------------------------
\* State
\* ------------------------------------------------------------------------
VARIABLES
    taskName,       \* useState(''): text of the task-name field
    estimatedTime,  \* useState(''): text of the estimated-time field
    tasks,          \* useState<Task[]>([])
    editingTask,    \* useState<Task | null>(null), held by its id: the
                    \* only property of it that is read
    activeTask,     \* useState<Task | null>(null)
    timer,          \* useState<NodeJS.Timer | null>(null): an interval id
    intervals,      \* the live setInterval callbacks, each with the tasks
                    \* array its closure captured
    flows,          \* handleAddTask calls in flight, each with the state
                    \* its closure captured
    stored,         \* the AsyncStorage slot STORAGE_KEY
    loaded,         \* whether loadTasks has run
    nextId,         \* the next value of Date.now().toString()
    requests,       \* the estimates requested so far
    nextInterval,   \* the next id setInterval returns
    notice,         \* the Alert raised by the last step ("none" without one)
    trail,          \* history: the countdown since the last start of an
                    \* idle entry (its task, its length, the ticks fired)
    estCall,        \* one call of calculateRealTime, on its own
    deleted         \* history: the ids handleDeleteTask removed while they
                    \* were not the active task's

vars == <<taskName, estimatedTime, tasks, editingTask, activeTask, timer,
          intervals, flows, stored, loaded, nextId, requests, nextInterval,
          notice, trail, estCall, deleted>>

screenVars == <<taskName, estimatedTime, tasks, editingTask, activeTask, timer,
                intervals, flows, stored, loaded, nextId, requests, nextInterval,
                notice, trail, deleted>>

\* ------------------------------------------------------------------------
\* Inputs of the model
\* ------------------------------------------------------------------------
\* what the user types into the task-name field
NameTexts == {<<"w", " ">>}

\* what the user types into the estimated-time field
EstimateTexts == {<<"1">>}

\* an answer holding the object { "realTime": rt, "explanation": ex }, a
\* member being left out when its value is Undefined
ObjectText(rt, ex) ==
    LET m1 == IF rt = Undefined THEN <<>>
              ELSE <<Val(Str("realTime")), Tok(":"), Val(rt)>>
        m2 == IF ex = Undefined THEN <<>>
              ELSE <<Val(Str("explanation")), Tok(":"), Val(ex)>>
        sep == IF rt # Undefined /\ ex # Undefined THEN <<Tok(",")>> ELSE <<>>
    IN  <<Tok("{")>> \o m1 \o sep \o m2 \o <<Tok("}")>>

TextOutcome(content) == [kind |-> "text", content |-> content]

\* the answer the screen's estimates get: realTime 0.05 minutes, a countdown
\* of three seconds
ScreenOutcomes ==
    {TextOutcome(ObjectText(Num(3), Str("includes review buffer")))}

NoTrail == [phase |-> "off", id |-> 0, total |-> Undefined, ticks |-> 0, resumed |-> FALSE]

NoCall == [phase |-> "idle", taskName |-> <<>>, estimatedTime |-> Undefined,
           outcome |-> [kind |-> "none", content |-> <<>>], result |-> Rejected]

\* ------------------------------------------------------------------------
\* TaskInputScreen
\* ------------------------------------------------------------------------
Init ==
    /\ taskName = <<>>
    /\ estimatedTime = <<>>
    /\ tasks = <<>>
    /\ editingTask = None
    /\ activeTask = None
    /\ timer = None
    /\ intervals = {}
    /\ flows = <<>>
    /\ stored = None
    /\ loaded = FALSE
    /\ nextId = 1
    /\ requests = 0
    /\ nextInterval = 1
    /\ notice = "none"
    /\ trail = NoTrail
    /\ estCall = NoCall
    /\ deleted = {}

\* the screen takes no press or typing while an Alert with buttons is on it,
\* nor before the list was read at startup
AlertShowing == ~loaded \/ \E k \in 1..Len(flows) : flows[k].phase = "confirm"

RemoveAt(seq, k) == SubSeq(seq, 1, k - 1) \o SubSeq(seq, k + 1, Len(seq))

\* useEffect(() => { loadTasks() }, [])
LoadTasks ==
    /\ ~loaded
    /\ loaded' = TRUE
    /\ tasks' = IF stored # None THEN stored[1] ELSE tasks
    /\ notice' = "none"
    /\ UNCHANGED <<taskName, estimatedTime, editingTask, activeTask, timer,
                   intervals, flows, stored, nextId, requests, nextInterval, trail, estCall, deleted>>

\* onChangeText={setTaskName}
SetTaskName(text) ==
    /\ ~AlertShowing
    /\ text # taskName
    /\ taskName' = text
    /\ notice' = "none"
    /\ UNCHANGED <<estimatedTime, tasks, editingTask, activeTask, timer,
                   intervals, flows, stored, loaded, nextId, requests, nextInterval,
                   trail, estCall, deleted>>

\* onChangeText={setEstimatedTime}
SetEstimatedTime(text) ==
    /\ ~AlertShowing
    /\ text # estimatedTime
    /\ estimatedTime' = text
    /\ notice' = "none"
    /\ UNCHANGED <<taskName, tasks, editingTask, activeTask, timer,
                   intervals, flows, stored, loaded, nextId, requests, nextInterval,
                   trail, estCall, deleted>>

\* saveTasks(updatedTasks): the slot after the write, which succeeds or fails
Saved(updatedTasks, ok) == IF ok THEN Some(Stringify(updatedTasks)) ELSE stored

SaveNotice(ok) == IF ok THEN "none" ELSE "saveFailed"

\* handleAddTask up to the await: validation, parseInt, the request
HandleAddTask ==
    /\ ~AlertShowing
    /\ IF Len(Trim(taskName)) = 0 \/ Len(Trim(estimatedTime)) = 0
       THEN /\ notice' = "inputMissing"
            /\ UNCHANGED <<flows, requests>>
       ELSE /\ requests < MaxRequests
            /\ requests' = requests + 1
            /\ notice' = "none"
            /\ flows' = Append(flows,
                   [phase |-> "awaiting", tasks |-> tasks, editingTask |-> editingTask,
                    taskName |-> taskName, estimatedMinutes |-> ParseInt(estimatedTime),
                    result |-> Rejected])
    /\ UNCHANGED <<taskName, estimatedTime, tasks, editingTask, activeTask, timer,
                   intervals, stored, loaded, nextId, nextInterval, trail, estCall, deleted>>

\* the await of calculateRealTime ends and the confirmation Alert is raised
EstimateArrives(k, outcome) ==
    /\ flows[k].phase = "awaiting"
    /\ LET result == calculateRealTime(flows[k].taskName, flows[k].estimatedMinutes, outcome)
       IN  flows' = [flows EXCEPT ![k].phase = IF result.status = "resolved"
                                                THEN "confirm" ELSE "failed",
                                  ![k].result = result]
    /\ notice' = "estimate"
    /\ UNCHANGED <<taskName, estimatedTime, tasks, editingTask, activeTask, timer,
                   intervals, stored, loaded, nextId, requests, nextInterval,
                   trail, estCall, deleted>>

\* the list the Alert's add button builds from the state its closure holds
UpdatedTasks(flow, id) ==
    IF flow.editingTask # None
    THEN [i \in 1..Len(flow.tasks) |->
            IF flow.tasks[i].id = flow.editingTask[1]
            THEN [flow.tasks[i] EXCEPT !.name = Trim(flow.taskName),
                                       !.estimatedTime = flow.estimatedMinutes,
                                       !.realTime = flow.result.realTime]
            ELSE flow.tasks[i]]
    ELSE Append(flow.tasks,
                NewTask(id, Trim(flow.taskName), flow.estimatedMinutes, flow.result.realTime))

\* the Alert's add button
AcceptEstimate(k, ok) ==
    /\ flows[k].phase = "confirm"
    /\ tasks' = UpdatedTasks(flows[k], nextId)
    /\ stored' = Saved(tasks', ok)
    /\ notice' = SaveNotice(ok)
    /\ nextId' = IF flows[k].editingTask # None THEN nextId ELSE nextId + 1
    /\ taskName' = <<>>
    /\ estimatedTime' = <<>>
    /\ editingTask' = None
    /\ flows' = RemoveAt(flows, k)
    /\ trail' = NoTrail
    /\ UNCHANGED <<activeTask, timer, intervals, loaded, requests, nextInterval, estCall, deleted>>

\* the Alert's cancel button
CancelEstimate(k) ==
    /\ flows[k].phase = "confirm"
    /\ flows' = RemoveAt(flows, k)
    /\ notice' = "none"
    /\ UNCHANGED <<taskName, estimatedTime, tasks, editingTask, activeTask, timer,
                   intervals, stored, loaded, nextId, requests, nextInterval,
                   trail, estCall, deleted>>

HandleEditTask(i) ==
    /\ ~AlertShowing
    /\ tasks[i].estimatedTime.t \in {"number", "nan"}
    /\ editingTask' = Some(tasks[i].id)
    /\ taskName' = tasks[i].name
    /\ estimatedTime' = NumberToString(tasks[i].estimatedTime)
    /\ notice' = "none"
    /\ UNCHANGED <<tasks, activeTask, timer, intervals, flows, stored, loaded,
                   nextId, requests, nextInterval, trail, estCall, deleted>>

\* shown while editingTask is set
HandleCancelEdit ==
    /\ ~AlertShowing
    /\ editingTask # None
    /\ editingTask' = None
    /\ taskName' = <<>>
    /\ estimatedTime' = <<>>
    /\ notice' = "none"
    /\ UNCHANGED <<tasks, activeTask, timer, intervals, flows, stored, loaded,
                   nextId, requests, nextInterval, trail, estCall, deleted>>

HandleDeleteTask(i, ok) ==
    /\ ~AlertShowing
    /\ tasks' = FilterOut(tasks, tasks[i].id)
    /\ stored' = Saved(tasks', ok)
    /\ notice' = SaveNotice(ok)
    /\ trail' = NoTrail
    /\ deleted' = IF activeTask # None /\ activeTask[1].id = tasks[i].id
                  THEN deleted
                  ELSE deleted \cup {tasks[i].id}
    /\ UNCHANGED <<taskName, estimatedTime, editingTask, activeTask, timer,
                   intervals, flows, loaded, nextId, requests,
                   nextInterval, estCall>>

\* ------------------------------------------------------------------------
\* The countdown
\* ------------------------------------------------------------------------
\* the guard with === in place of !==
AnotherTaskActiveInverted(active, task) == active # None /\ active[1].id = task.id

\* if (activeTask && activeTask.id !== task.id)
AnotherTaskActive(active, task) == active # None /\ active[1].id # task.id

\* a start that always recomputes remainingTime from realTime
StartedTaskRecomputed(task) ==
    [task EXCEPT !.isRunning = Bool(TRUE),
                 !.isPaused = Bool(FALSE),
                 !.remainingTime = Times60(task.realTime)]

\* const updatedTask = { ...task, isRunning: true, isPaused: false,
\*                       remainingTime: task.remainingTime || task.realTime * 60 }
StartedTask(task) ==
    [task EXCEPT !.isRunning = Bool(TRUE),
                 !.isPaused = Bool(FALSE),
                 !.remainingTime = OrElse(task.remainingTime, Times60(task.realTime))]

\* the live callbacks after setInterval: startTimer clears none
IntervalsAfterStart(live, id, captured) == live \cup {[id |-> id, tasks |-> captured]}

\* the start button of an idle entry, the resume button of a paused one
StartButtonShown(task) == ~Truthy(task.isRunning) \/ Truthy(task.isPaused)

PauseButtonShown(task) == Truthy(task.isRunning) /\ ~Truthy(task.isPaused)

ResetButtonShown(task) == Truthy(task.isRunning)

TrailAfterStart(task) ==
    IF ~Truthy(task.isRunning)
    THEN [phase |-> "counting", id |-> task.id, total |-> Times60(task.realTime),
          ticks |-> 0, resumed |-> FALSE]
    ELSE IF trail.phase = "paused" /\ trail.id = task.id
         THEN [trail EXCEPT !.phase = "counting", !.resumed = TRUE]
         ELSE NoTrail

\* startTimer(task), task being entry i of the rendered list
StartTimer(i) ==
    /\ ~AlertShowing
    /\ StartButtonShown(tasks[i])
    /\ IF AnotherTaskActive(activeTask, tasks[i])
       THEN /\ notice' = "alreadyRunning"
            /\ UNCHANGED <<tasks, activeTask, timer, intervals, nextInterval, trail>>
       ELSE /\ nextInterval <= MaxStarts
            /\ activeTask' = Some(StartedTask(tasks[i]))
            /\ tasks' = ReplaceById(tasks, tasks[i].id, StartedTask(tasks[i]))
            /\ intervals' = IntervalsAfterStart(intervals, nextInterval, tasks)
            /\ timer' = Some(nextInterval)
            /\ nextInterval' = nextInterval + 1
            /\ trail' = TrailAfterStart(tasks[i])
            /\ notice' = "none"
    /\ UNCHANGED <<taskName, estimatedTime, editingTask, flows, stored, loaded,
                   nextId, requests, estCall, deleted>>

\* if (timer) { clearInterval(timer); setTimer(null); }
IntervalsAfterClear(live, handle) ==
    IF handle # None THEN {iv \in live : iv.id # handle[1]} ELSE live

\* a pause that toggles isPaused
PausedTaskToggled(task) ==
    [task EXCEPT !.isRunning = Bool(TRUE), !.isPaused = Bool(~Truthy(task.isPaused))]

\* const updatedTask = { ...activeTask, isRunning: true, isPaused: true }
PausedTask(task) == [task EXCEPT !.isRunning = Bool(TRUE), !.isPaused = Bool(TRUE)]

\* { ...activeTask, isRunning: false, isPaused: false, remainingTime: undefined }
ResetTask(task) ==
    [task EXCEPT !.isRunning = Bool(FALSE), !.isPaused = Bool(FALSE),
                 !.remainingTime = Undefined]

\* the state pauseTimer leaves, from tasks, activeTask, timer and the callbacks
PauseEffect(list, active, handle, live) ==
    [tasks |-> IF active # None
               THEN ReplaceById(list, active[1].id, PausedTask(active[1]))
               ELSE list,
     activeTask |-> IF active # None THEN Some(PausedTask(active[1])) ELSE active,
     timer |-> None,
     intervals |-> IntervalsAfterClear(live, handle)]

PauseTimer ==
    /\ ~AlertShowing
    /\ \E i \in 1..Len(tasks) : PauseButtonShown(tasks[i])
    /\ LET after == PauseEffect(tasks, activeTask, timer, intervals)
       IN  /\ tasks' = after.tasks
           /\ activeTask' = after.activeTask
           /\ timer' = after.timer
           /\ intervals' = after.intervals
    /\ trail' = IF trail.phase = "off" \/ activeTask = None THEN NoTrail
                ELSE [trail EXCEPT !.phase = "paused"]
    /\ notice' = "none"
    /\ UNCHANGED <<taskName, estimatedTime, editingTask, flows, stored, loaded,
                   nextId, requests, nextInterval, estCall, deleted>>

\* the state resetTimer leaves
ResetEffect(list, active, handle, live) ==
    [tasks |-> IF active # None
               THEN ReplaceById(list, active[1].id, ResetTask(active[1]))
               ELSE list,
     activeTask |-> None,
     timer |-> None,
     intervals |-> IntervalsAfterClear(live, handle)]

ResetTimer ==
    /\ ~AlertShowing
    /\ \E i \in 1..Len(tasks) : ResetButtonShown(tasks[i])
    /\ LET after == ResetEffect(tasks, activeTask, timer, intervals)
       IN  /\ tasks' = after.tasks
           /\ activeTask' = after.activeTask
           /\ timer' = after.timer
           /\ intervals' = after.intervals
    /\ trail' = NoTrail
    /\ notice' = "none"
    /\ UNCHANGED <<taskName, estimatedTime, editingTask, flows, stored, loaded,
                   nextId, requests, nextInterval, estCall, deleted>>

\* if (!current || current.isPaused) return current;
TickSkips(current) == current = None \/ Truthy(current[1].isPaused)

\* const newRemainingTime = (current.remainingTime || 0) - 1;
NewRemainingTime(current) == MinusOne(OrElse(current.remainingTime, Whole(0)))

\* if (newRemainingTime <= 0)
CountdownOver(current) == AtMostZero(NewRemainingTime(current))

\* const updatedTask = { ...current, remainingTime: newRemainingTime };
TickedTask(current) == [current EXCEPT !.remainingTime = NewRemainingTime(current)]

\* the callback setInterval runs every second: setActiveTask(current => ...)
Tick(iv) ==
    /\ iv \in intervals
    /\ IF TickSkips(activeTask)
       THEN /\ notice' = "none"
            /\ UNCHANGED <<tasks, activeTask, timer, intervals, trail>>
       ELSE IF CountdownOver(activeTask[1])
            THEN /\ intervals' = intervals \ {iv}
                 /\ notice' = "completed"
                 /\ timer' = None
                 /\ activeTask' = None
                 /\ trail' = NoTrail
                 /\ UNCHANGED tasks
            ELSE /\ tasks' = ReplaceById(iv.tasks, activeTask[1].id, TickedTask(activeTask[1]))
                 /\ activeTask' = Some(TickedTask(activeTask[1]))
                 /\ trail' = IF trail.phase = "counting"
                             THEN [trail EXCEPT !.ticks = @ + 1]
                             ELSE trail
                 /\ notice' = "none"
                 /\ UNCHANGED <<timer, intervals>>
    /\ UNCHANGED <<taskName, estimatedTime, editingTask, flows, stored, loaded,
                   nextId, requests, nextInterval, estCall, deleted>>

Next ==
    \/ LoadTasks
    \/ \E text \in NameTexts \cup {<<>>} : SetTaskName(text)
    \/ \E text \in EstimateTexts \cup {<<>>} : SetEstimatedTime(text)
    \/ HandleAddTask
    \/ \E k \in 1..Len(flows) : \E outcome \in ScreenOutcomes : EstimateArrives(k, outcome)
    \/ \E k \in 1..Len(flows) : \E ok \in BOOLEAN : AcceptEstimate(k, ok)
    \/ \E k \in 1..Len(flows) : CancelEstimate(k)
    \/ \E i \in 1..Len(tasks) : HandleEditTask(i)
    \/ HandleCancelEdit
    \/ \E i \in 1..Len(tasks) : \E ok \in BOOLEAN : HandleDeleteTask(i, ok)
    \/ \E i \in 1..Len(tasks) : StartTimer(i)
    \/ PauseTimer
    \/ ResetTimer
    \/ \E iv \in intervals : Tick(iv)

Spec == Init /\ [][Next]_vars

\* ------------------------------------------------------------------------
\* calculateRealTime on its own
\* ------------------------------------------------------------------------
\* parseInt results handed over as estimatedTime
EstimateInputs == {Whole(m) : m \in 1..MaxEstimate} \cup {Whole(0), Whole(-1), NaN}

RealTimeValues ==
    {Undefined, Null, Whole(0), Whole(90), Whole(-5), Num(90), Str("ninety"),
     Bool(TRUE), Obj}

ExplanationValues == {Undefined, Str(""), Str("includes review buffer"), Whole(5)}

AnswerTexts ==
    {ObjectText(rt, ex) : rt \in RealTimeValues, ex \in ExplanationValues}
    \cup {<<>>,
          <<Tok("junk")>>,
          <<Val(Null)>>,
          <<Val(Whole(5))>>,
          <<Val(Str("ninety"))>>,
          <<Val(Bool(TRUE))>>,
          <<Tok("["), Tok("]")>>,
          <<Tok("["), Val(Whole(5)), Tok("]")>>,
          <<Tok("{"), Val(Str("realTime")), Tok(":"), Val(Whole(90)), Tok(",")>>,
          <<Tok("junk")>> \o ObjectText(Whole(90), Str("includes review buffer")),
          ObjectText(Whole(90), Str("includes review buffer")) \o <<Tok("junk")>>}

\* what openai.chat.completions.create can do: reject, or resolve with a
\* response lacking choices, a first choice, its message or its content, or
\* with content text
Outcomes ==
    {[kind |-> k, content |-> <<>>] :
        k \in {"throws", "noChoices", "emptyChoices", "noMessage", "nullContent"}}
    \cup {TextOutcome(c) : c \in AnswerTexts}

InitEst == Init

EstInvoke(name, minutes) ==
    /\ estCall.phase = "idle"
    /\ estCall' = [estCall EXCEPT !.phase = "awaiting", !.taskName = name,
                                  !.estimatedTime = minutes]
    /\ UNCHANGED screenVars

EstSettle(outcome) ==
    /\ estCall.phase = "awaiting"
    /\ estCall' = [estCall EXCEPT
                     !.phase = "settled",
                     !.outcome = outcome,
                     !.result = calculateRealTime(estCall.taskName,
                                                  estCall.estimatedTime, outcome)]
    /\ UNCHANGED screenVars

NextEst ==
    \/ \E name \in {Trim(t) : t \in NameTexts} \ {<<>>} :
         \E minutes \in EstimateInputs : EstInvoke(name, minutes)
    \/ \E outcome \in Outcomes : EstSettle(outcome)

SpecEst == InitEst /\ [][NextEst]_vars

\* ------------------------------------------------------------------------
\* Properties
\* ------------------------------------------------------------------------
\* timerState of a list entry: Idle unless isRunning, Paused when isPaused too
TimerState(task) ==
    IF ~Truthy(task.isRunning) THEN "Idle"
    ELSE IF Truthy(task.isPaused) THEN "Paused" ELSE "Running"

ActiveEntries == {i \in 1..Len(tasks) : TimerState(tasks[i]) \in {"Running", "Paused"}}

\* C1: in every reachable state at most one task of the list has timerState
\* Running or Paused.
SingleActiveTask == Cardinality(ActiveEntries) <= 1

\* C2: startTimer(B) while another task A is the active task raises the
\* warning and leaves tasks, activeTask, the tick handle and the live ticks
\* (and everything else but the notice) as they were.
StartOfSecondTaskRejected ==
    [][\A i \in 1..Len(tasks) :
          (/\ StartTimer(i)
           /\ activeTask # None
           /\ activeTask[1].id # tasks[i].id)
          => (/\ notice' = "alreadyRunning"
              /\ UNCHANGED <<tasks, activeTask, timer, intervals, nextInterval,
                             stored, editingTask, flows>>)]_vars

\* a start of B was rejected while A stays active
SecondStartWasRejected ==
    /\ notice = "alreadyRunning"
    /\ activeTask # None
    /\ \E i \in 1..Len(tasks) : tasks[i].id # activeTask[1].id

\* C3: after startTimer on an idle entry, k ticks, pauseTimer and startTimer
\* on that entry again, the active task's remainingTime is realTime * 60 - k.
ResumeKeepsRemaining ==
    trail.resumed =>
        /\ activeTask # None
        /\ activeTask[1].id = trail.id
        /\ trail.total.t = "number"
        /\ activeTask[1].remainingTime = Num(trail.total.n - trail.ticks * SecondsPerMinute)

\* a countdown resumed after k = 2 ticks, not yet ticked again
ResumedAfterTicks ==
    /\ trail.resumed
    /\ trail.phase = "counting"
    /\ trail.ticks = 2
    /\ activeTask # None
    /\ activeTask[1].remainingTime = Whole(1)
    /\ TimerState(activeTask[1]) = "Running"

\* C4: at most one setInterval callback is alive, and a live one is the one
\* the tick handle records.
SingleLiveTick ==
    /\ Cardinality(intervals) <= 1
    /\ \A iv \in intervals : timer = Some(iv.id)

\* C5: a tick of the Running active task at remainingTime 1 raises the
\* completion notice, clears the tick handle, leaves no tick alive and
\* empties activeTask.
CompletionStopsEverything ==
    [][\A iv \in intervals :
          (/\ Tick(iv)
           /\ activeTask # None
           /\ TimerState(activeTask[1]) = "Running"
           /\ activeTask[1].remainingTime = Whole(1))
          => (/\ notice' = "completed"
              /\ timer' = None
              /\ intervals' = {}
              /\ activeTask' = None)]_vars

\* C6: pauseTimer applied to the state pauseTimer leaves gives that state
\* again, and resetTimer without an active task leaves tasks, activeTask,
\* the tick handle and the live ticks as they are.
PauseAndResetIdempotent ==
    LET once == PauseEffect(tasks, activeTask, timer, intervals)
        twice == PauseEffect(once.tasks, once.activeTask, once.timer, once.intervals)
    IN  /\ twice = once
        /\ activeTask = None =>
             ResetEffect(tasks, activeTask, timer, intervals)
               = [tasks |-> tasks, activeTask |-> activeTask, timer |-> timer,
                  intervals |-> intervals]

\* the active task is paused and an entry still offers the pause button
PausedWithPauseOffered ==
    /\ activeTask # None
    /\ TimerState(activeTask[1]) = "Paused"
    /\ timer = None
    /\ \E i \in 1..Len(tasks) : PauseButtonShown(tasks[i])

\* ------------------------------------------------------------------------
\* Properties of calculateRealTime (under SpecEst)
\* ------------------------------------------------------------------------
PositiveEstimate == IsPositiveInteger(estCall.estimatedTime)

\* v is the least whole number of minutes that is at least 1.2 times the estimate
IsCeilOfEstimateTimes12(v) ==
    /\ v.t = "number"
    /\ v.n % SecondsPerMinute = 0
    /\ 10 * v.n >= 12 * estCall.estimatedTime.n
    /\ 10 * (v.n - SecondsPerMinute) < 12 * estCall.estimatedTime.n

CallFailed == estCall.outcome.kind \in {"throws", "noChoices", "emptyChoices", "noMessage"}

\* C7: for a positive estimate, a failed call gives ceil(estimate * 1.2) and
\* the API-error explanation.
CallFailureFallback ==
    (estCall.phase = "settled" /\ PositiveEstimate /\ CallFailed)
        => /\ estCall.result.status = "resolved"
           /\ IsCeilOfEstimateTimes12(estCall.result.realTime)
           /\ estCall.result.explanation = ExplanationApiError

\* a response without a first choice, settled
SettledWithoutFirstChoice ==
    /\ estCall.phase = "settled"
    /\ estCall.outcome.kind = "emptyChoices"
    /\ estCall.estimatedTime = Whole(MaxEstimate)

\* the answer text, decoded
Decoded == JSONParse(IF estCall.outcome.kind = "text" THEN estCall.outcome.content ELSE <<>>)

\* the answer does not decode to an object with a numeric realTime
NotTheExpectedShape ==
    /\ estCall.outcome.kind \in {"text", "nullContent"}
    /\ \/ Decoded.threw
       \/ Decoded.v # Obj
       \/ Decoded.realTime.t # "number"

\* C8: for a positive estimate, an answer that does not decode as the
\* expected shape gives ceil(estimate * 1.2) and the parse-fallback text.
UndecodableFallback ==
    (estCall.phase = "settled" /\ PositiveEstimate /\ NotTheExpectedShape)
        => /\ IsCeilOfEstimateTimes12(estCall.result.realTime)
           /\ estCall.result.explanation = ExplanationParseFallback

\* C9: for a positive estimate and every outcome, the realTime returned is a
\* positive integer.
RealTimePositiveInteger ==
    (estCall.phase = "settled" /\ PositiveEstimate)
        => IsPositiveInteger(estCall.result.realTime)

\* C10: for every outcome the call resolves with a realTime and an explanation.
NeverRejects ==
    estCall.phase = "settled"
        => /\ estCall.result.status = "resolved"
           /\ estCall.result.realTime # Undefined
           /\ estCall.result.explanation # Undefined

\* content that decodes to null, settled
SettledOnNullDocument ==
    /\ estCall.phase = "settled"
    /\ estCall.outcome = TextOutcome(<<Val(Null)>>)

\* ------------------------------------------------------------------------
\* The add/edit form on its own, with more of what can be typed
\* ------------------------------------------------------------------------
\* a name, and a name of white space only
FormNameTexts == {<<"w">>, <<" ">>}

\* a number, a decimal point alone (the numeric keypad has one), and white
\* space only
FormEstimateTexts == {<<"1">>, <<".">>, <<" ">>}

InitForm == Init

NextForm ==
    \/ LoadTasks
    \/ \E text \in FormNameTexts \cup {<<>>} : SetTaskName(text)
    \/ \E text \in FormEstimateTexts \cup {<<>>} : SetEstimatedTime(text)
    \/ HandleAddTask
    \/ \E k \in 1..Len(flows) : \E outcome \in ScreenOutcomes : EstimateArrives(k, outcome)
    \/ \E k \in 1..Len(flows) : AcceptEstimate(k, TRUE)
    \/ \E k \in 1..Len(flows) : CancelEstimate(k)
    \/ \E i \in 1..Len(tasks) : HandleEditTask(i)
    \/ HandleCancelEdit
    \/ \E i \in 1..Len(tasks) : HandleDeleteTask(i, TRUE)

SpecForm == InitForm /\ [][NextForm]_vars

\* ------------------------------------------------------------------------
\* Properties of the add/edit form
\* ------------------------------------------------------------------------
\* text is a number written in digits, white space around it aside
IsNumericText(text) ==
    /\ Len(Trim(text)) > 0
    /\ \A i \in 1..Len(Trim(text)) : IsDigit(Trim(text)[i])

\* C11: handleAddTask pressed with a task name that is empty or white space,
\* or with an estimated-time text that is empty or not a number, raises the
\* error notice and changes nothing else: no estimate is requested, and
\* tasks, editingTask and the stored list stay as they are.
InvalidInputAborts ==
    [][(/\ HandleAddTask
        /\ (Len(Trim(taskName)) = 0 \/ ~IsNumericText(estimatedTime)))
       => (/\ notice' = "inputMissing"
           /\ UNCHANGED <<flows, requests, tasks, editingTask, stored>>)]_vars

\* ------------------------------------------------------------------------
\* Properties of the commit of an add or an edit
\* ------------------------------------------------------------------------
\* entry after is entry before with the name, estimatedTime and realTime the
\* flow submitted, its other fields as they were
EditedInPlace(before, after, flow) ==
    after = [before EXCEPT !.name = Trim(flow.taskName),
                           !.estimatedTime = flow.estimatedMinutes,
                           !.realTime = flow.result.realTime]

\* C12: the add button of the confirmation, with editingTask set, replaces
\* name, estimatedTime and realTime of exactly the entry with that id, keeps
\* its id, position, timerState and remainingTime, and adds no entry; without
\* editingTask it appends one Idle task and keeps every existing entry. The
\* cancel button changes no state.
CommitFrame ==
    [][/\ \A k \in 1..Len(flows) :
            (\E ok \in BOOLEAN : AcceptEstimate(k, ok)) =>
                IF editingTask # None
                THEN /\ Len(tasks') = Len(tasks)
                     /\ \A i \in 1..Len(tasks) :
                          IF tasks[i].id = editingTask[1]
                          THEN /\ EditedInPlace(tasks[i], tasks'[i], flows[k])
                               /\ TimerState(tasks'[i]) = TimerState(tasks[i])
                               /\ tasks'[i].remainingTime = tasks[i].remainingTime
                          ELSE tasks'[i] = tasks[i]
                ELSE /\ Len(tasks') = Len(tasks) + 1
                     /\ SubSeq(tasks', 1, Len(tasks)) = tasks
                     /\ TimerState(tasks'[Len(tasks')]) = "Idle"
                     /\ \A i \in 1..Len(tasks) : tasks'[Len(tasks')].id # tasks[i].id
       /\ \A k \in 1..Len(flows) :
            CancelEstimate(k) =>
                UNCHANGED <<taskName, estimatedTime, tasks, editingTask, activeTask,
                            timer, intervals, stored>>]_vars

\* ------------------------------------------------------------------------
\* The screen with a store whose writes all succeed and a user who does not
\* delete the active task
\* ------------------------------------------------------------------------
InitSaved == Init

\* entry i of the list is not the active task
NotActive(i) == IF activeTask = None THEN TRUE ELSE activeTask[1].id # tasks[i].id

NextSaved ==
    \/ LoadTasks
    \/ \E text \in NameTexts \cup {<<>>} : SetTaskName(text)
    \/ \E text \in EstimateTexts \cup {<<>>} : SetEstimatedTime(text)
    \/ HandleAddTask
    \/ \E k \in 1..Len(flows) : \E outcome \in ScreenOutcomes : EstimateArrives(k, outcome)
    \/ \E k \in 1..Len(flows) : AcceptEstimate(k, TRUE)
    \/ \E k \in 1..Len(flows) : CancelEstimate(k)
    \/ \E i \in 1..Len(tasks) : HandleEditTask(i)
    \/ HandleCancelEdit
    \/ \E i \in 1..Len(tasks) : NotActive(i) /\ HandleDeleteTask(i, TRUE)
    \/ \E i \in 1..Len(tasks) : StartTimer(i)
    \/ PauseTimer
    \/ ResetTimer
    \/ \E iv \in intervals : Tick(iv)

SpecSaved == InitSaved /\ [][NextSaved]_vars

\* ------------------------------------------------------------------------
\* Properties of the stored list
\* ------------------------------------------------------------------------
\* the list the store holds, empty while nothing was written
PersistedList == IF stored = None THEN <<>> ELSE stored[1]

\* id, name, estimatedTime and realTime of the entries of a list, in order
CoreFields(list) ==
    [i \in 1..Len(list) |->
        [id |-> list[i].id, name |-> list[i].name,
         estimatedTime |-> list[i].estimatedTime, realTime |-> list[i].realTime]]

\* C13: with every save succeeding, whenever the list was loaded and no
\* add or edit is under way, the stored list and tasks hold the same entries
\* (id, name, estimatedTime, realTime) in the same order.
MirrorConsistent ==
    (loaded /\ flows = <<>> /\ editingTask = None)
        => CoreFields(PersistedList) = CoreFields(tasks)

\* ------------------------------------------------------------------------
\* Properties of the tick and of deletion
\* ------------------------------------------------------------------------
\* after is before with another remainingTime, nothing else
OnlyRemainingChanged(before, after) ==
    after = [before EXCEPT !.remainingTime = after.remainingTime]

\* C14: a tick that neither skips nor completes changes remainingTime of the
\* active task and of the list entry with its id, and nothing else: the list
\* keeps its entries and their order, every other entry keeps every field,
\* and the store is not written.
TickFrame ==
    [][\A iv \in intervals :
          (/\ Tick(iv)
           /\ ~TickSkips(activeTask)
           /\ ~CountdownOver(activeTask[1]))
          => (/\ OnlyRemainingChanged(activeTask[1], activeTask'[1])
              /\ Len(tasks') = Len(tasks)
              /\ \A i \in 1..Len(tasks) :
                    IF tasks[i].id = activeTask[1].id
                    THEN OnlyRemainingChanged(tasks[i], tasks'[i])
                    ELSE tasks'[i] = tasks[i]
              /\ UNCHANGED <<stored, editingTask, timer, intervals, flows>>)]_vars

\* C15: a task handleDeleteTask removed while it was not the active task is
\* never in the list again, whatever runs afterwards.
DeletedStaysDeleted == \A i \in 1..Len(tasks) : tasks[i].id \notin deleted

\* ------------------------------------------------------------------------
\* Properties of the list against the active task
\* ------------------------------------------------------------------------
\* C16: every list entry whose timerState is Running or Paused has the id of
\* the active task; with no active task every entry is Idle and offers the
\* start button.
ActiveEntriesAreTheActiveTask ==
    \A i \in 1..Len(tasks) :
        /\ TimerState(tasks[i]) \in {"Running", "Paused"}
             => (activeTask # None /\ activeTask[1].id = tasks[i].id)
        /\ activeTask = None
             => (TimerState(tasks[i]) = "Idle" /\ StartButtonShown(tasks[i]))

\* the flow's commit worked out on the list and the editingTask of now
CommitOnCurrent(flow) ==
    UpdatedTasks([flow EXCEPT !.tasks = tasks, !.editingTask = editingTask], nextId)

\* C17: the add button of the confirmation applies the add or the edit to
\* the list as it is when pressed, in tasks and in the store: what
\* handleDeleteTask, startTimer, pauseTimer, resetTimer or a tick did since
\* handleAddTask was called is kept.
CommitAppliesToCurrentList ==
    [][\A k \in 1..Len(flows) :
          AcceptEstimate(k, TRUE) =>
              /\ tasks' = CommitOnCurrent(flows[k])
              /\ stored' = Some(Stringify(CommitOnCurrent(flows[k])))]_vars

\* ------------------------------------------------------------------------
\* Properties of reset and of the countdown's end
\* ------------------------------------------------------------------------
\* C18: resetTimer with an active task leaves no tick alive and no handle,
\* empties activeTask, and leaves that task's list entry Idle without
\* remainingTime, every other entry as it was; startTimer on the entry it
\* leaves begins at realTime * 60.
ResetThenFreshStart ==
    [][(ResetTimer /\ activeTask # None) =>
          /\ intervals' = {}
          /\ timer' = None
          /\ activeTask' = None
          /\ Len(tasks') = Len(tasks)
          /\ \A i \in 1..Len(tasks) :
                IF tasks[i].id = activeTask[1].id
                THEN /\ tasks'[i].id = tasks[i].id
                     /\ TimerState(tasks'[i]) = "Idle"
                     /\ tasks'[i].remainingTime = Undefined
                     /\ StartedTask(tasks'[i]).remainingTime = Times60(tasks'[i].realTime)
                ELSE tasks'[i] = tasks[i]]_vars

\* ------------------------------------------------------------------------
\* The countdown under a clock that keeps firing
\* ------------------------------------------------------------------------
\* setInterval(..., 1000): a live callback is run again and again
TickFires == \E iv \in intervals : Tick(iv)

SpecTicking == InitSaved /\ [][NextSaved]_vars /\ WF_vars(TickFires)

\* the active task is counting down
Counting == activeTask # None /\ TimerState(activeTask[1]) = "Running"

\* C19: while the active task counts down, each tick takes 1 off its
\* remainingTime, or, when that leaves nothing, ends the countdown: activeTask
\* is emptied, the handle cleared and no tick is left alive; and with ticks
\* kept firing a countdown that is neither paused nor reset does end.
CountdownCompletes ==
    /\ [][\A iv \in intervals :
             (Tick(iv) /\ Counting) =>
                 IF AtMostZero(MinusOne(activeTask[1].remainingTime))
                 THEN /\ activeTask' = None
                      /\ timer' = None
                      /\ intervals' = {}
                 ELSE /\ activeTask' # None
                      /\ activeTask'[1].remainingTime
                           = MinusOne(activeTask[1].remainingTime)]_vars
    /\ Counting ~> (activeTask = None \/ TimerState(activeTask[1]) = "Paused")

=============================================================================
